---------------------------- MODULE Spec2Model ----------------------------
(***************************************************************************)
(* Model of app.py: a Streamlit script that shows every uploaded image,    *)
(* asks a multimodal model for title / buildings / description of the      *)
(* images that are not yet in the SQLite table image_data, and inserts one *)
(* row per analysed image.                                                 *)
(*                                                                         *)
(* The script is executed top to bottom on every interaction ("run"): it   *)
(* calls setup_database() and then walks the uploaded files in order.      *)
(* One action below is one step of that walk (display, existence check,    *)
(* extraction, insert); the three database functions are operators that    *)
(* the specifications apply:                                               *)
(*   Spec        the script, run after run, over batches of uploaded files *)
(*   SpecFields  the script on one file, over every shape of model answer  *)
(*   SpecStore   the three database functions called directly, in any      *)
(*               order, with any arguments                                 *)
(***************************************************************************)
EXTENDS Integers, Sequences, FiniteSets, TLC

VARIABLES
    tableExists,  \* buildings.db holds the table image_data
    rows,         \* the table image_data, in insertion order
    seq,          \* sqlite_sequence: the largest id ever given (AUTOINCREMENT)
    openConns,    \* connections opened by sqlite3.connect and not closed
    last,         \* the latest direct call of a database function: its result
    calls,        \* direct calls of the database functions so far
    pc,           \* where the script is
    uploads,      \* files uploaded so far, over all runs (see Cost)
    batch,        \* uploaded_files of this run
    pos,          \* read position of every uploaded file's stream
    idx,          \* the loop variable i + 1
    seq0,         \* seq when this run started: its rows have the ids above
    extracted,    \* extracted_data, between chain.invoke and the insert
    notices,      \* st.info / st.warning / st.error calls of this run, in order
    img           \* per uploaded file: what the run did with it

storeVars == <<tableExists, rows, seq, openConns>>
callVars == <<last, calls>>
runVars == <<pc, uploads, batch, pos, idx, seq0, extracted, notices, img>>
vars == <<tableExists, rows, seq, openConns, last, calls,
          pc, uploads, batch, pos, idx, seq0, extracted, notices, img>>

---------------------------------------------------------------------------
(* Bounds of the model.                                                    *)

MaxUploads == 3   \* files uploaded in total, over all the runs of the script
                  \* (a run without files counts as one)
MaxCalls == 4     \* direct calls of the database functions in SpecStore

---------------------------------------------------------------------------
(* Values the model chain can return for a key, and that SQLite stores.    *)

Absent == [k |-> "absent", s |-> "", l |-> <<>>]
Null == [k |-> "null", s |-> "", l |-> <<>>]
Str(s) == [k |-> "str", s |-> s, l |-> <<>>]
List(l) == [k |-> "list", s |-> "", l |-> l]

\* The uploaded files a user picks from: a name and the bytes of the file.
Files ==
    { [name |-> "a.jpg", data |-> <<255, 216, 255, 224>>],
      [name |-> "b.jpg", data |-> <<137, 80, 78, 71, 13>>],
      [name |-> "c.jpg", data |-> <<>>] }

Names == {f.name : f \in Files}

\* the uploads of at most n files
Batches(n) == UNION {[1..k -> Files] : k \in 0..n}

\* What a model may answer for one key.
TitleValues == {Absent, Null, Str("X"), List(<<"A", "B">>)}
FieldValues == {Absent, Null, Str("S"), List(<<>>), List(<<"A">>), List(<<"A", "B">>)}

\* The parsed model answers: a JSON object, or JSON that is no object.
Responses ==
    [kind : {"dict"}, title : TitleValues, buildings : FieldValues,
     description : FieldValues]
    \cup {[kind |-> "notdict", title |-> Absent, buildings |-> Absent,
           description |-> Absent]}

NoExtraction ==
    [kind |-> "none", title |-> Absent, buildings |-> Absent, description |-> Absent]

Dict(title, buildings, description) ==
    [kind |-> "dict", title |-> title, buildings |-> buildings,
     description |-> description]

\* chain.invoke({}) raises, or returns one of the parsed answers
Raised == [NoExtraction EXCEPT !.kind = "raised"]
Answers == Responses \cup {Raised}

\* The answers the runs over whole batches draw from: the call raises; the
\* answer is no object; only a title; a list to flatten; a null title; a
\* list as title.
BatchAnswers ==
    { Raised,
      [NoExtraction EXCEPT !.kind = "notdict"],
      Dict(Str("X"), Absent, Absent),
      Dict(Absent, List(<<"A", "B">>), Str("S")),
      Dict(Null, Str("S"), Str("S")),
      Dict(List(<<"A", "B">>), Str("S"), Str("S")) }

---------------------------------------------------------------------------
(* base64.b64encode(image_bytes).decode('utf-8'): the text is modelled as  *)
(* the sequence of alphabet indices 0..63, with 64 for the padding '='.    *)

RECURSIVE b64encode(_)
b64encode(bytes) ==
    IF Len(bytes) = 0 THEN <<>>
    ELSE IF Len(bytes) = 1 THEN
        << bytes[1] \div 4, (bytes[1] % 4) * 16, 64, 64 >>
    ELSE IF Len(bytes) = 2 THEN
        << bytes[1] \div 4, (bytes[1] % 4) * 16 + (bytes[2] \div 16),
           (bytes[2] % 16) * 4, 64 >>
    ELSE
        << bytes[1] \div 4, (bytes[1] % 4) * 16 + (bytes[2] \div 16),
           (bytes[2] % 16) * 4 + (bytes[3] \div 64), bytes[3] % 64 >>
        \o b64encode(SubSeq(bytes, 4, Len(bytes)))

encode_image_from_bytes(image_bytes) == b64encode(image_bytes)

\* The human turn of the prompt: the data URL built from the encoded image.
ImageUrl(base64_image) == [mime |-> "image/jpeg", base64 |-> base64_image]

---------------------------------------------------------------------------
(* An uploaded file is a byte stream with a read position.                 *)

\* uploaded_file.read(): the bytes from the position to the end
StreamRead(data, p) == SubSeq(data, p + 1, Len(data))

\* the position read() leaves
StreamEnd(data) == Len(data)

\* (mutation of SeekStart: the seek(0) is missing)
SeekMissing(p) == p

\* uploaded_file.seek(0)
SeekStart(p) == 0

---------------------------------------------------------------------------
(* The post-processing of extracted_data.                                  *)

\* extracted_data.get(key, default)
Get(d, key, default) == IF d[key].k = "absent" THEN Str(default) ELSE d[key]

\* sep.join(map(str, items))
RECURSIVE Join(_, _)
Join(sep, items) ==
    IF items = <<>> THEN ""
    ELSE IF Len(items) = 1 THEN items[1]
    ELSE items[1] \o sep \o Join(sep, Tail(items))

\* (mutation of Flatten: the separator has no space)
FlattenNoSpace(v) == IF v.k = "list" THEN Str(Join(",", v.l)) ELSE v

\* if isinstance(x, list): x = ", ".join(map(str, x))
Flatten(v) == IF v.k = "list" THEN Str(Join(", ", v.l)) ELSE v

\* the four arguments of the insert_image_data call
InsertArgs(d) ==
    [title |-> Get(d, "title", "No title"),
     buildings |-> Flatten(Get(d, "buildings", "No buildings identified")),
     description |-> Flatten(Get(d, "description", "No description"))]

---------------------------------------------------------------------------
(* The database functions.  Every call opens its own connection.  A        *)
(* statement can fail for reasons outside the program (the file is locked, *)
(* unreadable, full): fault "io" is that sqlite3.OperationalError.         *)

Faults == {"none", "io"}

\* SELECT COUNT(*) FROM image_data WHERE image_name = ?
CountRows(image_name) == Cardinality({i \in DOMAIN rows : rows[i].image_name = image_name})

\* (mutation of UniqueViolation: the column is not declared UNIQUE)
NotUnique(image_name) == FALSE

\* image_name TEXT NOT NULL UNIQUE: the insert would break the UNIQUE constraint
UniqueViolation(image_name) == \E i \in DOMAIN rows : rows[i].image_name = image_name

\* title TEXT NOT NULL: the insert would break the NOT NULL constraint
NotNullViolation(title) == title.k = "null"

\* sqlite3 binds None, int, float, str and bytes; a list is refused
BindError(title, buildings, description) ==
    title.k = "list" \/ buildings.k = "list" \/ description.k = "list"

\* (mutation of NextId: ids counted from 0)
IdFromZero == seq

\* id INTEGER PRIMARY KEY AUTOINCREMENT: one more than the largest id ever given
NextId == seq + 1

\* What stops the INSERT statement, "ok" when nothing does.
InsertCause(image_name, title, buildings, description, fault) ==
    IF BindError(title, buildings, description) THEN "bind"
    ELSE IF ~tableExists \/ fault = "io" THEN "io"
    ELSE IF NotNullViolation(title) THEN "notnull"
    ELSE IF UniqueViolation(image_name) THEN "unique"
    ELSE "ok"

\* the exceptions the clause `except sqlite3.IntegrityError` catches
IsIntegrityError(cause) == cause \in {"notnull", "unique"}

\* setup_database(): CREATE TABLE IF NOT EXISTS, commit, close.  No try: a
\* statement that raises leaves the function before db_conn.close().
setup_database(fault) ==
    [op |-> "setup", name |-> "", present |-> FALSE, fault |-> fault,
     title |-> "none", count0 |-> Len(rows), cause |-> fault,
     raised |-> fault = "io", ret |-> FALSE, notice |-> "none",
     table |-> tableExists \/ fault = "none",
     rows |-> rows, seq |-> seq,
     conns |-> IF fault = "io" THEN openConns + 1 ELSE openConns]

\* image_exists_in_db(image_name): SELECT COUNT(*), close, return count > 0.
\* No try either.
image_exists_in_db(image_name, fault) ==
    LET failed == ~tableExists \/ fault = "io"
    IN  [op |-> "exists", name |-> image_name, fault |-> fault,
         title |-> "none", count0 |-> Len(rows),
         present |-> CountRows(image_name) > 0,
         cause |-> IF failed THEN "io" ELSE "ok",
         raised |-> failed,
         ret |-> ~failed /\ CountRows(image_name) > 0,
         notice |-> "none",
         table |-> tableExists, rows |-> rows, seq |-> seq,
         conns |-> IF failed THEN openConns + 1 ELSE openConns]

\* insert_image_data(image_name, title, buildings, description): INSERT and
\* commit inside try; IntegrityError gives st.warning and False, any other
\* exception st.error and False; finally db_conn.close().
insert_image_data(image_name, title, buildings, description, fault) ==
    LET cause == InsertCause(image_name, title, buildings, description, fault)
        row == [id |-> NextId, image_name |-> image_name, title |-> title,
                buildings |-> buildings, description |-> description]
    IN  [op |-> "insert", name |-> image_name, fault |-> fault,
         title |-> title.k, count0 |-> Len(rows),
         present |-> CountRows(image_name) > 0,
         cause |-> cause,
         raised |-> FALSE,
         ret |-> cause = "ok",
         notice |-> IF cause = "ok" THEN "none"
                    ELSE IF IsIntegrityError(cause) THEN "warning"
                    ELSE "error",
         table |-> tableExists,
         rows |-> IF cause = "ok" THEN Append(rows, row) ELSE rows,
         seq |-> IF cause = "ok" THEN NextId ELSE seq,
         conns |-> openConns]

NoCall ==
    [op |-> "none", name |-> "", present |-> FALSE, fault |-> "none",
     title |-> "none", count0 |-> 0, cause |-> "ok",
     raised |-> FALSE, ret |-> FALSE, notice |-> "none"]

\* A call as its caller sees it: the function and what it was given (name,
\* the kind of the title, whether a row of that name and how many rows
\* there were, the fault met), and what it gave: an exception, a return
\* value, a notice.
Outcome(r) ==
    [op |-> r.op, name |-> r.name, present |-> r.present, fault |-> r.fault,
     title |-> r.title, count0 |-> r.count0, cause |-> r.cause,
     raised |-> r.raised, ret |-> r.ret, notice |-> r.notice]

\* The store after a call.
Stored(r) ==
    /\ tableExists' = r.table
    /\ rows' = r.rows
    /\ seq' = r.seq
    /\ openConns' = r.conns

\* st.info / st.warning / st.error
Notice(level, kind, name, i) == [level |-> level, kind |-> kind, name |-> name, i |-> i]

\* the notice insert_image_data gives, if any
InsertNotices(r, i) ==
    IF r.notice = "none" THEN <<>>
    ELSE << Notice(r.notice, IF r.notice = "warning" THEN "duplicate" ELSE "insert",
                   r.name, i) >>

---------------------------------------------------------------------------
(* The script.                                                             *)

\* What a run has done with one uploaded file so far.
NewImage ==
    [outcome |-> "Pending",  \* where its pipeline is, or how it ended
     exists |-> "unasked",   \* what image_exists_in_db returned
     shown |-> <<>>,         \* the bytes read for display
     sent |-> <<>>,          \* the image payloads sent to the model
     inserts |-> 0,          \* insert_image_data calls
     answer |-> NoExtraction, \* what chain.invoke gave
     cause |-> "none"]       \* what the insert met

Terminal == {"Skipped", "Persisted", "ExtractionFailed", "DuplicateSkipped", "StoreFailed"}

\* the next iteration of `for i, uploaded_file in enumerate(uploaded_files)`
AfterImage(i) ==
    [pc |-> IF i < Len(batch) THEN "display" ELSE "done", idx |-> i + 1]

\* an exception nothing catches ends the script run
Uncaught(i) == [pc |-> "crashed", idx |-> i]

\* (mutation of AfterExisting: the `continue` is missing)
NoContinue(i) == [pc |-> "extract", idx |-> i]

\* `continue` after the st.info of an image that is already stored
AfterExisting(i) == AfterImage(i)

\* (mutation of AfterAnalysisError: the exception is raised again)
Reraise(i) == Uncaught(i)

\* the end of the `except Exception` block: the loop goes on
AfterAnalysisError(i) == AfterImage(i)

Init ==
    /\ tableExists = FALSE
    /\ rows = <<>>
    /\ seq = 0
    /\ openConns = 0
    /\ last = NoCall
    /\ calls = 0
    /\ pc = "idle"
    /\ uploads = 0
    /\ batch = <<>>
    /\ pos = <<>>
    /\ idx = 0
    /\ seq0 = 0
    /\ extracted = NoExtraction
    /\ notices = <<>>
    /\ img = <<>>

\* What a run takes of the bound MaxUploads: its files, and one for a run
\* without files.
Cost(b) == IF b = <<>> THEN 1 ELSE Len(b)

\* An interaction starts the script: st.file_uploader returns the files.
StartRun(b) ==
    /\ pc \in {"idle", "done", "crashed", "startup_failed"}
    /\ uploads + Cost(b) <= MaxUploads
    /\ uploads' = uploads + Cost(b)
    /\ batch' = b
    /\ pos' = [i \in DOMAIN b |-> 0]
    /\ img' = [i \in DOMAIN b |-> NewImage]
    /\ idx' = 0
    /\ seq0' = seq
    /\ notices' = <<>>
    /\ extracted' = NoExtraction
    /\ pc' = "setup"
    /\ UNCHANGED storeVars
    /\ UNCHANGED callVars

\* setup_database() at the top of the script, then `if uploaded_files:`.
Setup(fault) ==
    /\ pc = "setup"
    /\ LET r == setup_database(fault)
       IN  /\ Stored(r)
           /\ IF r.raised
              THEN /\ pc' = "startup_failed"
                   /\ UNCHANGED <<idx, notices>>
              ELSE IF batch = <<>>
              THEN /\ pc' = "done"
                   /\ notices' = << Notice("info", "nofiles", "", 0) >>
                   /\ UNCHANGED idx
              ELSE /\ pc' = "display"
                   /\ idx' = 1
                   /\ UNCHANGED notices
    /\ UNCHANGED <<uploads, batch, pos, seq0, extracted, img>>
    /\ UNCHANGED callVars

\* read(), seek(0), Image.open, st.image.  Image.open raises on bytes that
\* are no image; nothing catches it.
Display(decodable) ==
    /\ pc = "display"
    /\ LET data == batch[idx].data
           image_for_display == StreamRead(data, pos[idx])
           next == IF decodable THEN [pc |-> "exists", idx |-> idx] ELSE Uncaught(idx)
       IN  /\ image_for_display = <<>> => ~decodable
           /\ pos' = [pos EXCEPT ![idx] = SeekStart(StreamEnd(data))]
           /\ img' = [img EXCEPT ![idx].shown = image_for_display,
                                 ![idx].outcome =
                                     IF decodable THEN "Displayed" ELSE "Aborted"]
           /\ pc' = next.pc
           /\ idx' = next.idx
    /\ UNCHANGED <<uploads, batch, seq0, extracted, notices>>
    /\ UNCHANGED storeVars
    /\ UNCHANGED callVars

\* if image_exists_in_db(uploaded_file.name): st.info(...); continue
Exists(fault) ==
    /\ pc = "exists"
    /\ LET name == batch[idx].name
           r == image_exists_in_db(name, fault)
           next == IF r.raised THEN Uncaught(idx)
                   ELSE IF r.ret THEN AfterExisting(idx)
                   ELSE [pc |-> "extract", idx |-> idx]
       IN  /\ Stored(r)
           /\ pc' = next.pc
           /\ idx' = next.idx
           /\ notices' = IF ~r.raised /\ r.ret
                         THEN Append(notices, Notice("info", "existing", name, idx))
                         ELSE notices
           /\ img' = [img EXCEPT
                        ![idx].exists = IF r.raised THEN "raised"
                                        ELSE IF r.ret THEN "yes" ELSE "no",
                        ![idx].outcome = IF r.raised THEN "Aborted"
                                         ELSE IF r.ret THEN "Skipped"
                                         ELSE "Extracting"]
    /\ UNCHANGED <<uploads, batch, pos, seq0, extracted>>
    /\ UNCHANGED callVars

\* read() for the model, encode, build the prompt, chain.invoke({}) and the
\* post-processing of the answer.  answer "raised": the call or the parser
\* raised.  An answer that is no dict has no .get: AttributeError.
Extract(answer) ==
    /\ pc = "extract"
    /\ LET data == batch[idx].data
           name == batch[idx].name
           image_bytes_for_llm == StreamRead(data, pos[idx])
           base64_image == encode_image_from_bytes(image_bytes_for_llm)
           failed == answer.kind # "dict"
           next == IF failed THEN AfterAnalysisError(idx)
                   ELSE [pc |-> "insert", idx |-> idx]
       IN  /\ pos' = [pos EXCEPT ![idx] = StreamEnd(data)]
           /\ img' = [img EXCEPT
                        ![idx].sent = Append(@, ImageUrl(base64_image)),
                        ![idx].answer = answer,
                        ![idx].outcome = IF failed THEN "ExtractionFailed" ELSE @]
           /\ extracted' = IF failed THEN NoExtraction ELSE answer
           /\ notices' = IF failed
                         THEN Append(notices, Notice("error", "analysis", name, idx))
                         ELSE notices
           /\ pc' = next.pc
           /\ idx' = next.idx
    /\ UNCHANGED <<uploads, batch, seq0>>
    /\ UNCHANGED storeVars
    /\ UNCHANGED callVars

\* insert_image_data(...) with the post-processed fields; its result is not used.
Insert(fault) ==
    /\ pc = "insert"
    /\ LET name == batch[idx].name
           a == InsertArgs(extracted)
           r == insert_image_data(name, a.title, a.buildings, a.description, fault)
           next == AfterImage(idx)
       IN  /\ Stored(r)
           /\ notices' = notices \o InsertNotices(r, idx)
           /\ img' = [img EXCEPT
                        ![idx].inserts = @ + 1,
                        ![idx].cause = r.cause,
                        ![idx].outcome = IF r.cause = "ok" THEN "Persisted"
                                         ELSE IF r.cause = "unique" THEN "DuplicateSkipped"
                                         ELSE "StoreFailed"]
           /\ pc' = next.pc
           /\ idx' = next.idx
    /\ extracted' = NoExtraction
    /\ UNCHANGED <<uploads, batch, pos, seq0>>
    /\ UNCHANGED callVars

Next ==
    \/ \E b \in Batches(MaxUploads) : StartRun(b)
    \/ \E fault \in Faults : Setup(fault)
    \/ \E decodable \in BOOLEAN : Display(decodable)
    \/ \E fault \in Faults : Exists(fault)
    \/ \E answer \in BatchAnswers : Extract(answer)
    \/ \E fault \in Faults : Insert(fault)

Spec == Init /\ [][Next]_vars

---------------------------------------------------------------------------
(* The script on uploads of the one file a.jpg, the model answering with   *)
(* any of Answers.                                                         *)

OneFile == {f \in Files : f.name = "a.jpg"}

NextFields ==
    \/ \E b \in [1..1 -> OneFile] : StartRun(b)
    \/ \E fault \in Faults : Setup(fault)
    \/ \E decodable \in BOOLEAN : Display(decodable)
    \/ \E fault \in Faults : Exists(fault)
    \/ \E answer \in Answers : Extract(answer)
    \/ \E fault \in Faults : Insert(fault)

SpecFields == Init /\ [][NextFields]_vars

---------------------------------------------------------------------------
(* The database functions called directly.  The script calls               *)
(* setup_database() before anything else, so the table exists.             *)

InitStore ==
    /\ tableExists = TRUE
    /\ rows = <<>>
    /\ seq = 0
    /\ openConns = 0
    /\ last = NoCall
    /\ calls = 0
    /\ pc = "idle"
    /\ uploads = 0
    /\ batch = <<>>
    /\ pos = <<>>
    /\ idx = 0
    /\ seq0 = 0
    /\ extracted = NoExtraction
    /\ notices = <<>>
    /\ img = <<>>

\* One direct call: its effect on the store, its result, its notice.
Call(r) ==
    /\ calls < MaxCalls
    /\ calls' = calls + 1
    /\ Stored(r)
    /\ last' = Outcome(r)
    /\ notices' = notices \o InsertNotices(r, 0)
    /\ UNCHANGED <<pc, uploads, batch, pos, idx, seq0, extracted, img>>

CallSetup(fault) == Call(setup_database(fault))

CallExists(image_name, fault) == Call(image_exists_in_db(image_name, fault))

CallInsert(image_name, title, buildings, description, fault) ==
    Call(insert_image_data(image_name, title, buildings, description, fault))

\* the arguments a direct insert is given
ArgTitles == {Str("X"), Null, List(<<"A", "B">>)}
ArgFields == {Str("S"), Null}

NextStore ==
    \/ \E fault \in Faults : CallSetup(fault)
    \/ \E n \in Names, fault \in Faults : CallExists(n, fault)
    \/ \E n \in Names, t \in ArgTitles, b \in ArgFields, fault \in Faults :
          CallInsert(n, t, b, Str("S"), fault)

SpecStore == InitStore /\ [][NextStore]_vars

---------------------------------------------------------------------------
(* What the claims speak of.                                               *)

Images == DOMAIN batch

\* the rows this run has inserted
RunRows == {rows[k] : k \in {n \in DOMAIN rows : rows[n].id > seq0}}

\* the notices of this run that the image at position i has caused
NoticesOf(i) == {k \in DOMAIN notices : notices[k].i = i}

Noticed(i, level) ==
    \E k \in NoticesOf(i) : notices[k].level = level /\ notices[k].name = batch[i].name

\* base64.b64decode, on the modelled text
RECURSIVE b64decode(_)
b64decode(text) ==
    IF Len(text) < 4 THEN <<>>
    ELSE LET a == text[1]
             b == text[2]
             c == text[3]
             d == text[4]
             b1 == a * 4 + (b \div 16)
             b2 == (b % 16) * 16 + (c \div 4)
             b3 == (c % 4) * 64 + d
         IN  IF c = 64 THEN << b1 >>
             ELSE IF d = 64 THEN << b1, b2 >>
             ELSE << b1, b2, b3 >> \o b64decode(SubSeq(text, 5, Len(text)))

\* The reference coercion of one answered key: its sentinel when the key
\* is absent, the elements of a list joined by ", " from the left, a string
\* as it is.
RefJoined(l) ==
    LET F[n \in 0..Len(l)] ==
            IF n = 0 THEN ""
            ELSE IF n = 1 THEN l[1]
            ELSE F[n - 1] \o ", " \o l[n]
    IN  F[Len(l)]

RefText(v, sentinel) ==
    CASE v.k = "absent" -> sentinel
      [] v.k = "list" -> RefJoined(v.l)
      [] OTHER -> v.s

RefRow(name, a) ==
    [image_name |-> name,
     title |-> Str(RefText(a.title, "No title")),
     buildings |-> Str(RefText(a.buildings, "No buildings identified")),
     description |-> Str(RefText(a.description, "No description"))]

\* an answer as C6 takes it: every key absent or a string, buildings and
\* description possibly a list of strings
WellFormed(a) ==
    /\ a.kind = "dict"
    /\ a.title.k \in {"absent", "str"}
    /\ a.buildings.k \in {"absent", "str", "list"}
    /\ a.description.k \in {"absent", "str", "list"}

WithoutId(r) ==
    [image_name |-> r.image_name, title |-> r.title, buildings |-> r.buildings,
     description |-> r.description]

---------------------------------------------------------------------------
(* C1 (SpecStore): no two rows of the table have the same image_name; and  *)
(* an insert_image_data call for a name that has a row already, reaching   *)
(* the store with values it can bind, leaves the number of rows as it was, *)
(* returns False (not inserted), gives the warning notice, raises nothing. *)
C1_UniqueNames ==
    /\ \A m, n \in DOMAIN rows : rows[m].image_name = rows[n].image_name => m = n
    /\ (last.op = "insert" /\ last.present /\ last.fault = "none" /\ last.title # "list")
         => /\ Len(rows) = last.count0
            /\ last.ret = FALSE
            /\ last.notice = "warning"
            /\ ~last.raised

\* an insert of a name that has a row has been refused with the warning
C1_Witness ==
    /\ last.op = "insert" /\ last.present /\ last.fault = "none" /\ last.title = "str"
    /\ last.ret = FALSE /\ last.notice = "warning" /\ Len(rows) = last.count0

---------------------------------------------------------------------------
(* C2, as claimed (Spec): when the extraction of an image has failed, no   *)
(* row is written for it, an error notice names it, and every other image  *)
(* of the batch whose extraction has succeeded (the answer is an object),  *)
(* the store not failing, is persisted.                                    *)
ExtractionIsolated(i) ==
    /\ img[i].inserts = 0
    /\ \A r \in RunRows : r.image_name = batch[i].name =>
          \E j \in Images \ {i} :
              batch[j].name = batch[i].name /\ img[j].outcome = "Persisted"
    /\ Noticed(i, "error")
    /\ ~(pc = "crashed" /\ idx = i)

C2_AsClaimed ==
    \A i \in Images : img[i].outcome = "ExtractionFailed" =>
        /\ ExtractionIsolated(i)
        /\ \A j \in Images \ {i} :
              (img[j].answer.kind = "dict" /\ img[j].inserts = 1 /\ img[j].cause # "io")
                 => /\ img[j].outcome = "Persisted"
                    /\ \E r \in RunRows : r.image_name = batch[j].name

(* C2, amended (Spec): ... and every other image of the batch whose        *)
(* extraction has succeeded is given to insert_image_data, and is          *)
(* persisted when the title of the answer is a string or absent and the    *)
(* store does not fail; it comes before or after the failing image.        *)
C2_BatchIsolation ==
    \A i \in Images : img[i].outcome = "ExtractionFailed" =>
        /\ ExtractionIsolated(i)
        /\ \A j \in Images \ {i} :
              /\ (img[j].answer.kind = "dict" /\ j < idx) => img[j].inserts = 1
              /\ (img[j].answer.kind = "dict" /\ img[j].inserts = 1
                    /\ img[j].answer.title.k \in {"absent", "str"}
                    /\ img[j].cause # "io")
                   => /\ img[j].outcome = "Persisted"
                      /\ \E r \in RunRows : r.image_name = batch[j].name

\* a batch of three: the second image's extraction failed, the first and
\* the third are persisted
C2_Witness ==
    /\ pc = "done" /\ Len(batch) = 3
    /\ img[2].outcome = "ExtractionFailed"
    /\ img[1].outcome = "Persisted" /\ img[3].outcome = "Persisted"

---------------------------------------------------------------------------
(* C3 (Spec): an image for which image_exists_in_db returned True has no   *)
(* payload sent to the model and no insert_image_data call in this run,    *)
(* exactly one notice, the informational one naming it, and no row of the  *)
(* run: a row of its name comes from an earlier position of the batch.     *)
C3_ExistenceShortCircuit ==
    \A i \in Images : img[i].exists = "yes" =>
        /\ img[i].sent = <<>>
        /\ img[i].inserts = 0
        /\ img[i].outcome = "Skipped"
        /\ Cardinality(NoticesOf(i)) = 1
        /\ Noticed(i, "info")
        /\ \A r \in RunRows : r.image_name = batch[i].name =>
              \E j \in 1..(i - 1) :
                  batch[j].name = batch[i].name /\ img[j].outcome = "Persisted"

\* a name comes a second time in a batch, after its first occurrence was
\* persisted, and is skipped
C3_Witness ==
    \E i \in Images : \E j \in 1..(i - 1) :
        /\ batch[j].name = batch[i].name
        /\ img[j].outcome = "Persisted"
        /\ img[i].exists = "yes" /\ img[i].outcome = "Skipped"

---------------------------------------------------------------------------
(* C4, as claimed (Spec): no failure on an image ends the run: a run ends  *)
(* with the loop through, every image in a terminal state, a failed one    *)
(* with its notice.                                                        *)
C4_NoImageAbortsBatch ==
    /\ pc # "crashed"
    /\ pc = "done" => \A i \in Images :
          /\ img[i].outcome \in Terminal
          /\ img[i].outcome # "Persisted" => NoticesOf(i) # {}

---------------------------------------------------------------------------
(* C5, as claimed (SpecStore): insert_image_data gives the warning of the  *)
(* duplicate only when a row of that name is there, and the error notice   *)
(* for every other insert the store refuses.                               *)
C5_DuplicateOnlyWhenPresent ==
    last.op = "insert" =>
        /\ last.notice = "warning" => last.present
        /\ (~last.ret /\ ~last.present) => last.notice = "error"

---------------------------------------------------------------------------
(* C6 (SpecFields): for a well-formed answer (every key absent or a        *)
(* string, buildings and description possibly a list of strings) that the  *)
(* store takes, the row of the image is the reference coercion of the      *)
(* answer: sentinel for an absent key, list elements joined by ", ",       *)
(* a string as it is.                                                      *)
C6_FieldCoercion ==
    \A i \in Images :
        (WellFormed(img[i].answer) /\ img[i].inserts = 1 /\ img[i].cause # "io")
           => /\ img[i].outcome = "Persisted"
              /\ \E r \in RunRows : WithoutId(r) = RefRow(batch[i].name, img[i].answer)

\* the answer had only a list of buildings, and the row has them joined
C6_Witness ==
    \E i \in Images :
        /\ img[i].outcome = "Persisted"
        /\ img[i].answer = Dict(Absent, List(<<"A", "B">>), Absent)
        /\ \E r \in RunRows :
              /\ r.title = Str("No title")
              /\ r.buildings = Str("A, B")
              /\ r.description = Str("No description")

---------------------------------------------------------------------------
(* C7, as claimed (SpecStore): after any sequence of calls of the three    *)
(* database functions, no connection is open.                              *)
C7_NoOpenConnection == openConns = 0

---------------------------------------------------------------------------
(* C8 (Spec): the images are processed one at a time in upload order: the  *)
(* images before the current one are in a terminal state, those after it   *)
(* untouched; the ids of the rows are 1, 2, ... in insertion order, none   *)
(* given twice, so the rows of persisted images have ids increasing in     *)
(* upload order; and a batch of distinct names, all persisted on an empty  *)
(* store, has the ids 1, 2, ... in upload order.                           *)
C8_SequentialInOrder ==
    /\ \A i \in Images :
          /\ (i < idx /\ pc # "setup") => img[i].outcome \in Terminal
          /\ (i > idx \/ pc = "setup") => img[i] = NewImage
    /\ \A k \in DOMAIN rows : rows[k].id = k
    /\ seq = Len(rows)
    /\ \A i, j \in Images :
          (i < j /\ img[i].outcome = "Persisted" /\ img[j].outcome = "Persisted")
             => \E r, t \in RunRows :
                   /\ r.image_name = batch[i].name
                   /\ t.image_name = batch[j].name
                   /\ r.id < t.id
    /\ (seq0 = 0 /\ \A i \in Images : img[i].outcome = "Persisted")
          => \A i \in Images : rows[i].image_name = batch[i].name /\ rows[i].id = i

\* two distinct new names, both persisted on the empty store: ids 1 and 2
C8_Witness ==
    /\ pc = "done" /\ seq0 = 0 /\ Len(batch) = 2
    /\ batch[1].name # batch[2].name
    /\ img[1].outcome = "Persisted" /\ img[2].outcome = "Persisted"
    /\ rows[1].id = 1 /\ rows[1].image_name = batch[1].name
    /\ rows[2].id = 2 /\ rows[2].image_name = batch[2].name

---------------------------------------------------------------------------
(* C9, as claimed (Spec): when the loop is through, every image has a row  *)
(* or a notice naming it: info when skipped by the check, warning when     *)
(* refused as a duplicate by the insert, error when the extraction or the  *)
(* store failed.  (Runs that an exception ended are left to C4.)           *)
C9_EveryFailureNoticed ==
    pc = "done" => \A i \in Images :
        CASE img[i].outcome = "Persisted" -> TRUE
          [] img[i].outcome = "Skipped" -> Noticed(i, "info")
          [] img[i].outcome = "DuplicateSkipped" -> Noticed(i, "warning")
          [] img[i].outcome \in {"ExtractionFailed", "StoreFailed"} -> Noticed(i, "error")
          [] OTHER -> FALSE

---------------------------------------------------------------------------
(* C10 (Spec): the stream of an image is at position 0 when the existence  *)
(* check and the extraction come, although the display has read it to its  *)
(* end; the payload sent to the model is the encoding of all the bytes of  *)
(* the file, which decodes to the bytes read for display.                  *)
C10_WholeImageSent ==
    /\ pc \in {"exists", "extract"} => pos[idx] = 0
    /\ \A i \in Images : \A k \in DOMAIN img[i].sent :
          /\ img[i].sent[k] = ImageUrl(b64encode(batch[i].data))
          /\ b64decode(img[i].sent[k].base64) = batch[i].data
          /\ img[i].shown = batch[i].data

\* an image of five bytes was read for display and then sent whole
C10_Witness ==
    \E i \in Images :
        /\ Len(batch[i].data) = 5
        /\ Len(img[i].shown) = 5
        /\ Len(img[i].sent) = 1
        /\ Len(img[i].sent[1].base64) = 8
=============================================================================
